---------------------------- MODULE Spec2Model ----------------------------
(***************************************************************************)
(* A model of smart-bus/backend/app.py: the bus motion simulator, the EWMA *)
(* demand forecaster with the rule-based schedule optimizer, and the SSE   *)
(* event broker with its subscriber registry.                              *)
(*                                                                         *)
(* Every coroutine of the program runs on one asyncio event loop, so the   *)
(* code between two awaits is one atomic step; each action below is one    *)
(* such step.                                                              *)
(***************************************************************************)
EXTENDS Integers, Sequences, FiniteSets, TLC

VARIABLES
    BUSES,         \* app.py:68   bus id -> BusState
    leg_ticks,     \* history: ticks each bus has spent on its current leg
    EWMA_STATE,    \* app.py:129  forecast key -> smoothed value (a binary64)
    SCHEDULE,      \* app.py:69   the list of ScheduleEntry
    fed,           \* history: forecast key -> the values update_ewma was given
    last_update,   \* history: the last update_ewma call and what it returned
    last_pass,     \* history: now_ts and forecast map of the last optimizer pass
    last_ticket,   \* history: the time, base, draw and count of the last ticket
    event_queue,   \* app.py:221  the ingestion queue
    putting,       \* producer -> it waits in event_queue.put for room
    subscribers,   \* app.py:217  the registry, a list of subscriber queues
    queue,         \* app.py:262  connection -> contents of its queue
    gen,           \* connection -> where its sse_stream / gen() stands
    closed,        \* connection -> its outer connection has closed
    broadcaster,   \* "running", or "failed" once an exception left its loop
    published,     \* history: number of events put into event_queue
    warm,          \* history: the counts of events put and taken before the
                   \* initial state
    delivered      \* history: connection -> the events put into its queue, in order

worldVars    == <<BUSES, leg_ticks>>
forecastVars == <<EWMA_STATE, SCHEDULE, fed, last_update, last_pass, last_ticket>>
brokerVars   == <<event_queue, putting, subscribers, queue, gen, closed,
                  broadcaster, published, warm, delivered>>
vars         == <<worldVars, forecastVars, brokerVars>>

Null == "None"

Range(s) == {s[i] : i \in 1..Len(s)}

Max(a, b) == IF a >= b THEN a ELSE b

Last(s) == s[Len(s)]

(***************************************************************************)
(* IEEE-754 binary64 arithmetic, which is what Python's float is.  The     *)
(* forecaster and the motion simulator multiply and add floats, and        *)
(* rounding decides whether a result is "exactly" some value or within     *)
(* some region, so the arithmetic is modelled bit for                      *)
(* bit: a finite non-negative double is [m, e] standing for m * 2^e, with  *)
(* m = 0 (and e = 0) or 2^52 <= m < 2^53.  A mantissa does not fit TLC's   *)
(* integers, so m is a natural number written in base 2^13, least          *)
(* significant limb first, without leading zero limbs.  Results are        *)
(* rounded to nearest, ties to even.  Every value the program meets is     *)
(* far from overflow and from the subnormal range.                         *)
(***************************************************************************)
\* the width of a limb of the model's natural numbers
LIMB_BITS == 13

\* the bits of a binary64 significand
MANT_BITS == 53

RECURSIVE Pow2(_)
Pow2(n) == IF n = 0 THEN 1 ELSE 2 * Pow2(n - 1)

LIMB == Pow2(LIMB_BITS)

Limb(n, i) == IF i \in 1..Len(n) THEN n[i] ELSE 0

RECURSIVE Trim(_)
Trim(n) ==
    IF n = <<>> THEN <<>>
    ELSE IF n[Len(n)] = 0 THEN Trim(SubSeq(n, 1, Len(n) - 1)) ELSE n

RECURSIVE Propagate(_, _, _)
Propagate(cols, i, carry) ==
    IF i > Len(cols)
    THEN IF carry = 0 THEN <<>>
         ELSE <<carry % LIMB>> \o Propagate(cols, i, carry \div LIMB)
    ELSE LET t == cols[i] + carry
         IN  <<t % LIMB>> \o Propagate(cols, i + 1, t \div LIMB)

BigAdd(a, b) ==
    LET len == Max(Len(a), Len(b))
    IN  Trim(Propagate([i \in 1..len |-> Limb(a, i) + Limb(b, i)], 1, 0))

RECURSIVE Borrow(_, _, _, _)
Borrow(a, b, i, borrow) ==
    IF i > Len(a) THEN <<>>
    ELSE LET t == a[i] - Limb(b, i) - borrow
         IN  IF t < 0 THEN <<t + LIMB>> \o Borrow(a, b, i + 1, 1)
             ELSE <<t>> \o Borrow(a, b, i + 1, 0)

\* a - b for a >= b
BigSub(a, b) == Trim(Borrow(a, b, 1, 0))

RECURSIVE ColumnSum(_, _, _, _)
ColumnSum(a, b, k, i) ==
    IF i = 0 THEN 0
    ELSE ColumnSum(a, b, k, i - 1) + a[i] * Limb(b, k + 1 - i)

BigMul(a, b) ==
    IF a = <<>> \/ b = <<>> THEN <<>>
    ELSE Trim(Propagate([k \in 1..(Len(a) + Len(b)) |-> ColumnSum(a, b, k, Len(a))],
                        1, 0))

RECURSIVE SmallBitLen(_)
SmallBitLen(x) == IF x = 0 THEN 0 ELSE 1 + SmallBitLen(x \div 2)

\* the number of bits of a trimmed n
BitLen(n) ==
    IF n = <<>> THEN 0 ELSE LIMB_BITS * (Len(n) - 1) + SmallBitLen(n[Len(n)])

\* floor(n / 2^s)
ShiftRight(n, s) ==
    LET k == s \div LIMB_BITS
        r == s % LIMB_BITS
    IN  IF Len(n) <= k THEN <<>>
        ELSE Trim([j \in 1..(Len(n) - k) |->
                    (Limb(n, j + k) \div Pow2(r))
                    + (Limb(n, j + k + 1) % Pow2(r)) * Pow2(LIMB_BITS - r)])

\* n * 2^s
ShiftLeft(n, s) ==
    LET k == s \div LIMB_BITS
        r == s % LIMB_BITS
    IN  IF n = <<>> THEN <<>>
        ELSE [j \in 1..k |-> 0]
             \o Trim(Propagate([j \in 1..Len(n) |-> n[j] * Pow2(r)], 1, 0))

\* bit i of n, bit 0 the least significant
Bit(n, i) == (Limb(n, (i \div LIMB_BITS) + 1) \div Pow2(i % LIMB_BITS)) % 2

\* the s low bits of n are all zero
LowBitsZero(n, s) == ShiftLeft(ShiftRight(n, s), s) = n

RECURSIVE BigLessFrom(_, _, _)
BigLessFrom(a, b, i) ==
    IF i = 0 THEN FALSE
    ELSE IF a[i] # b[i] THEN a[i] < b[i] ELSE BigLessFrom(a, b, i - 1)

\* a < b, for trimmed a and b
BigLess(a, b) ==
    IF Len(a) # Len(b) THEN Len(a) < Len(b) ELSE BigLessFrom(a, b, Len(a))

FZero == [m |-> <<>>, e |-> 0]

\* n * 2^e rounded to a double: to nearest, ties to even
Round53(n, e) ==
    LET bl == BitLen(n)
    IN  IF n = <<>> THEN FZero
        ELSE IF bl <= MANT_BITS
        THEN [m |-> ShiftLeft(n, MANT_BITS - bl), e |-> e - (MANT_BITS - bl)]
        ELSE LET s      == bl - MANT_BITS
                 q      == ShiftRight(n, s)
                 guard  == Bit(n, s - 1) = 1
                 sticky == ~LowBitsZero(n, s - 1)
                 up     == guard /\ (sticky \/ Bit(q, 0) = 1)
                 q2     == IF up THEN BigAdd(q, <<1>>) ELSE q
             IN  IF BitLen(q2) > MANT_BITS
                 THEN [m |-> ShiftRight(q2, 1), e |-> e + s + 1]
                 ELSE [m |-> q2, e |-> e + s]

\* float(k) for an int 0 <= k < 2^13
FromInt(k) == IF k = 0 THEN FZero ELSE Round53(<<k>>, 0)

\* x * y
FMul(x, y) == Round53(BigMul(x.m, y.m), x.e + y.e)

\* x + y
FAdd(x, y) ==
    IF x.m = <<>> THEN y
    ELSE IF y.m = <<>> THEN x
    ELSE IF x.e >= y.e
    THEN Round53(BigAdd(ShiftLeft(x.m, x.e - y.e), y.m), y.e)
    ELSE Round53(BigAdd(ShiftLeft(y.m, y.e - x.e), x.m), x.e)

\* x < y
FLess(x, y) ==
    IF y.m = <<>> THEN FALSE
    ELSE IF x.m = <<>> THEN TRUE
    ELSE IF x.e # y.e THEN x.e < y.e
    ELSE BigLess(x.m, y.m)

\* x - y for x >= y
FSub(x, y) ==
    IF y.m = <<>> THEN x
    ELSE Round53(BigSub(ShiftLeft(x.m, x.e - y.e), y.m), y.e)

RECURSIVE DivFrom(_, _, _, _)
DivFrom(n, d, i, rem) ==
    IF i = 0 THEN [q |-> <<>>, r |-> rem]
    ELSE LET cur  == rem * LIMB + n[i]
             rest == DivFrom(n, d, i - 1, cur % d)
         IN  [q |-> rest.q \o <<cur \div d>>, r |-> rest.r]

\* quotient and remainder of n by a small d
BigDivSmall(n, d) ==
    LET res == DivFrom(n, d, Len(n), 0) IN [q |-> Trim(res.q), r |-> res.r]

\* the double nearest to a / b, which is what a decimal literal such as 0.3
\* (a = 3, b = 10) denotes; a remainder is folded into a sticky bit
FRatio(a, b) ==
    LET s  == 80
        d  == BigDivSmall(ShiftLeft(<<a>>, s), b)
        n2 == BigAdd(ShiftLeft(d.q, 1), IF d.r # 0 THEN <<1>> ELSE <<>>)
    IN  Round53(n2, 0 - s - 1)


\* the natural number x < 2^31 in limbs
BigOf(x) == Trim(Propagate(<<x>>, 1, 0))

\* the double c[1]*2^48 + c[2]*2^32 + c[3]*2^16 + c[4], times 2^e
Double(c, e) ==
    [m |-> BigAdd(ShiftLeft(BigOf(c[1]), 48),
                  BigAdd(ShiftLeft(BigOf(c[2]), 32),
                         BigAdd(ShiftLeft(BigOf(c[3]), 16), BigOf(c[4])))),
     e |-> e]

\* abs(x - y)
FAbsDiff(x, y) == IF FLess(x, y) THEN FSub(y, x) ELSE FSub(x, y)

(***************************************************************************)
(* The synthetic network (bootstrap_network).  A coordinate is the double  *)
(* the code holds.  Every latitude is positive and every longitude         *)
(* negative (center_lon = -122.4194, radius_deg = 0.03), and binary64      *)
(* arithmetic is symmetric in the sign, so a longitude is held as its      *)
(* magnitude -lon.  The stops' coordinates are the doubles that            *)
(* center + radius_deg * sin(theta) and center + radius_deg * cos(theta)   *)
(* evaluate to.                                                            *)
(***************************************************************************)
StopIds == <<"S0", "S1", "S2", "S3", "S4", "S5", "S6", "S7">>

\* lat = center_lat + radius_deg * math.sin(theta), i = 0..7
StopLat ==
    <<Double(<<18, 58159, 60502, 54736>>, 0 - 47),
      Double(<<18, 58855, 2454, 21944>>, 0 - 47),
      Double(<<18, 59142, 63124, 18036>>, 0 - 47),
      Double(<<18, 58855, 2454, 21944>>, 0 - 47),
      Double(<<18, 58159, 60502, 54736>>, 0 - 47),
      Double(<<18, 57464, 53015, 21992>>, 0 - 47),
      Double(<<18, 57176, 57881, 25900>>, 0 - 47),
      Double(<<18, 57464, 53015, 21992>>, 0 - 47)>>

\* -lon for lon = center_lon + radius_deg * math.cos(theta), i = 0..7
StopLon ==
    <<Double(<<30, 39147, 60922, 17406>>, 0 - 46),
      Double(<<30, 39291, 58489, 15452>>, 0 - 46),
      Double(<<30, 39639, 29464, 64592>>, 0 - 46),
      Double(<<30, 39987, 440, 48196>>, 0 - 46),
      Double(<<30, 40130, 63543, 46242>>, 0 - 46),
      Double(<<30, 39987, 440, 48196>>, 0 - 46),
      Double(<<30, 39639, 29464, 64592>>, 0 - 46),
      Double(<<30, 39291, 58489, 15452>>, 0 - 46)>>

STOPS == [id \in Range(StopIds) |->
            LET i == CHOOSE k \in 1..Len(StopIds) : StopIds[k] = id
            IN  [lat |-> StopLat[i], lon |-> StopLon[i]]]

Reverse(s) == [i \in 1..Len(s) |-> s[Len(s) + 1 - i]]

ROUTES == [R1 |-> StopIds, R2 |-> Reverse(StopIds)]

RouteIds == <<"R1", "R2">>

BusIds == {"B1", "B2"}

InitBuses ==
    [b \in BusIds |->
        IF b = "B1"
        THEN [route_id |-> "R1", lat |-> STOPS["S0"].lat, lon |-> STOPS["S0"].lon,
              speed_kmh |-> 25, next_stop_id |-> "S1", eta_next_stop_s |-> 60]
        ELSE [route_id |-> "R2", lat |-> STOPS["S4"].lat, lon |-> STOPS["S4"].lon,
              speed_kmh |-> 22, next_stop_id |-> "S3", eta_next_stop_s |-> 60]]

(***************************************************************************)
(* gps_simulator: one iteration of its loop moves every bus.               *)
(***************************************************************************)

\* 1e-4, the arrival threshold
ARRIVE_EPS == FRatio(1, 10000)

\* 0.2
STEP == FRatio(1, 5)

\* list.index: the 0-based position of the first occurrence
ListIndex(stops, id) ==
    (CHOOSE k \in 1..Len(stops) :
        stops[k] = id /\ \A j \in 1..(k - 1) : stops[j] # id) - 1

\* a default to the last stop of the route
TargetIndexLast(stops, next_stop_id) ==
    IF next_stop_id \in Range(stops) THEN ListIndex(stops, next_stop_id)
    ELSE Len(stops) - 1

\* stops.index(bus.next_stop_id) if bus.next_stop_id in stops else 0
TargetIndex(stops, next_stop_id) ==
    IF next_stop_id \in Range(stops) THEN ListIndex(stops, next_stop_id) ELSE 0

\* list.index(x) raises ValueError when x is not in the list
IndexRaises(stops, id) == id \notin Range(stops)

\* index is called only for an id found in stops, under `except ValueError`
TargetIndexRaises(stops, next_stop_id) ==
    /\ next_stop_id \in Range(stops)
    /\ IndexRaises(stops, next_stop_id)

StepTowardOvershoot(x, target) ==
    IF FLess(x, target)
    THEN FAdd(x, FMul(FSub(target, x), FRatio(6, 5)))
    ELSE FSub(x, FMul(FSub(x, target), FRatio(6, 5)))

\* x + (target - x) * 0.2
StepToward(x, target) ==
    IF FLess(x, target)
    THEN FAdd(x, FMul(FSub(target, x), STEP))
    ELSE FSub(x, FMul(FSub(x, target), STEP))

DecayEtaNoFloor(eta) ==
    LET e == IF eta = 0 THEN 60 ELSE eta
    IN  (e * 85) \div 100

\* max(5, int((eta or 60) * 0.85)); `eta or 60` is 60 for 0 (and for None, which
\* no bus holds: bootstrap sets 60 and every tick stores an int)
DecayEta(eta) ==
    LET e == IF eta = 0 THEN 60 ELSE eta
    IN  Max(5, (e * 85) \div 100)

ArrivedExactly(lat, lon, stop) == lat = stop.lat /\ lon = stop.lon

\* abs(bus.lat - next_stop.lat) < 1e-4 and abs(bus.lon - next_stop.lon) < 1e-4
Arrived(lat, lon, stop) ==
    /\ FLess(FAbsDiff(lat, stop.lat), ARRIVE_EPS)
    /\ FLess(FAbsDiff(lon, stop.lon), ARRIVE_EPS)

\* an advance that passes over one stop
NextIndexSkipping(target_index, stops) == (target_index + 2) % Len(stops)

\* (target_index + 1) % len(stops)
NextIndex(target_index, stops) == (target_index + 1) % Len(stops)

NextStopIdByNumber(target_index, stops) == (StopIds \o <<"S8">>)[target_index + 2]

\* stops[next_index]
NextStopId(target_index, stops) == stops[NextIndex(target_index, stops) + 1]

\* the body of `for bus in BUSES.values()`
MoveBus(bus) ==
    LET stops        == ROUTES[bus.route_id]
        target_index == TargetIndex(stops, bus.next_stop_id)
        next_stop    == STOPS[stops[target_index + 1]]
        lat          == StepToward(bus.lat, next_stop.lat)
        lon          == StepToward(bus.lon, next_stop.lon)
        eta          == DecayEta(bus.eta_next_stop_s)
    IN  IF Arrived(lat, lon, next_stop)
        THEN [bus EXCEPT !.lat = next_stop.lat, !.lon = next_stop.lon,
                         !.next_stop_id = NextStopId(target_index, stops),
                         !.eta_next_stop_s = 60]
        ELSE [bus EXCEPT !.lat = lat, !.lon = lon, !.eta_next_stop_s = eta]

\* no bus of the loop raises, which would end the task
gps_runs ==
    \A b \in BusIds : ~TargetIndexRaises(ROUTES[BUSES[b].route_id], BUSES[b].next_stop_id)

gps_simulator ==
    /\ gps_runs
    /\ BUSES' = [b \in BusIds |-> MoveBus(BUSES[b])]
    /\ leg_ticks' = [b \in BusIds |->
                        IF BUSES'[b].next_stop_id # BUSES[b].next_stop_id
                        THEN 0 ELSE leg_ticks[b] + 1]
    /\ UNCHANGED <<forecastVars, brokerVars>>

InitWorld ==
    /\ BUSES = InitBuses
    /\ leg_ticks = [b \in BusIds |-> 0]

(***************************************************************************)
(* bootstrap_network's rolling schedule.  Times are whole seconds counted  *)
(* from bootstrap's `now`, so planned_time = idx * 120 + k * 600.          *)
(***************************************************************************)
VISITS == 12

\* optimized_time = None, written as a time that no entry is ever given
NoTime == 0 - 1

ScheduleFor(route_id) ==
    [n \in 1..(Len(ROUTES[route_id]) * VISITS) |->
        LET idx == (n - 1) \div VISITS
            k   == (n - 1) % VISITS
        IN  [route_id |-> route_id, stop_id |-> ROUTES[route_id][idx + 1],
             planned_time |-> idx * 120 + k * 600, optimized_time |-> NoTime]]

InitSchedule == ScheduleFor("R1") \o ScheduleFor("R2")

(***************************************************************************)
(* The EWMA forecaster and the rule-based scheduler.                       *)
(***************************************************************************)

\* f"{route_id}:{stop_id}"
Key(route_id, stop_id) == route_id \o ":" \o stop_id

\* ALPHA = 0.3
ALPHA == FRatio(3, 10)

EmptyDict == [k \in {} |-> Null]

\* dict.get(key, default)
Get(state, key, default) == IF key \in DOMAIN state THEN state[key] ELSE default

\* new_value of update_ewma(key, value)
EwmaValue(state, key, value) ==
    LET previous_value == Get(state, key, value)
    IN  FAdd(FMul(ALPHA, value), FMul(FSub(FromInt(1), ALPHA), previous_value))

\* EWMA_STATE[key] = new_value
EwmaStore(state, key, new_value) ==
    [k \in DOMAIN state \cup {key} |-> IF k = key THEN new_value ELSE state[k]]

F5 == FromInt(5)

F8 == FromInt(8)

F15 == FromInt(15)

\* forecast = EWMA_STATE.get(key, 8.0)
Forecast(state, entry) == Get(state, Key(entry.route_id, entry.stop_id), F8)

OptimizedTimeUnclamped(forecast, entry, now_ts) ==
    IF FLess(F15, forecast)
    THEN entry.planned_time - 180
    ELSE IF FLess(forecast, F5)
    THEN entry.planned_time + 60
    ELSE entry.planned_time

\* the optimized_time optimize_schedule gives one entry
OptimizedTime(forecast, entry, now_ts) ==
    IF FLess(F15, forecast)
    THEN Max(now_ts, entry.planned_time - 180)
    ELSE IF FLess(forecast, F5)
    THEN entry.planned_time + 60
    ELSE entry.planned_time

\* the keys, the observed counts and the values of now the model feeds in
TicketKeys == {Key("R1", "S0"), Key("R2", "S4")}

Counts == {3, 20}

NowValues == {0, 700}

MaxUpdates == 3

NumUpdates == LET RECURSIVE Total(_)
                  Total(ks) == IF ks = {} THEN 0
                               ELSE LET k == CHOOSE x \in ks : TRUE
                                    IN  Len(fed[k]) + Total(ks \ {k})
              IN  Total(DOMAIN fed)

update_ewma(key, value) ==
    /\ NumUpdates < MaxUpdates
    /\ LET new_value == EwmaValue(EWMA_STATE, key, value)
       IN  /\ EWMA_STATE' = EwmaStore(EWMA_STATE, key, new_value)
           /\ last_update' = [key |-> key, value |-> value,
                              seen |-> key \in DOMAIN EWMA_STATE,
                              before |-> EWMA_STATE,
                              returned |-> new_value]
    /\ fed' = [k \in DOMAIN fed \cup {key} |->
                 IF k = key THEN Append(Get(fed, key, <<>>), value) ELSE fed[k]]
    /\ UNCHANGED <<SCHEDULE, last_pass, worldVars, brokerVars>>

\* a pass that moves planned_time along with optimized_time
optimize_schedule_replanning(now_ts) ==
    /\ SCHEDULE' = [i \in 1..Len(SCHEDULE) |->
                      LET t == OptimizedTime(Forecast(EWMA_STATE, SCHEDULE[i]),
                                             SCHEDULE[i], now_ts)
                      IN  [SCHEDULE[i] EXCEPT !.optimized_time = t, !.planned_time = t]]
    /\ last_pass' = [done |-> TRUE, now_ts |-> now_ts, forecasts |-> EWMA_STATE]
    /\ UNCHANGED <<EWMA_STATE, fed, last_update, last_ticket, worldVars, brokerVars>>

optimize_schedule(now_ts) ==
    /\ SCHEDULE' = [i \in 1..Len(SCHEDULE) |->
                      [SCHEDULE[i] EXCEPT
                         !.optimized_time =
                            OptimizedTime(Forecast(EWMA_STATE, SCHEDULE[i]),
                                          SCHEDULE[i], now_ts)]]
    /\ last_pass' = [done |-> TRUE, now_ts |-> now_ts, forecasts |-> EWMA_STATE]
    /\ UNCHANGED <<EWMA_STATE, fed, last_update, last_ticket, worldVars, brokerVars>>

\* datetime.utcnow().hour, the time of day counted in minutes
HourOf(minute) == minute \div 60

\* 6 if hour < 6 else (16 if 7 <= hour <= 9 or 16 <= hour <= 18 else 10)
Base(hour) ==
    IF hour < 6 THEN 6
    ELSE IF (7 <= hour /\ hour <= 9) \/ (16 <= hour /\ hour <= 18) THEN 16
    ELSE 10

\* int(x) truncates toward zero; x is held in tenths
IntOfTenths(x10) == IF x10 >= 0 THEN x10 \div 10 ELSE 0 - ((0 - x10) \div 10)

\* max(0, int(rng.gauss(mu=base, sigma=3))), the draw being base plus a deviation
\* given in tenths
TicketCount(base, dev10) == Max(0, IntOfTenths(base * 10 + dev10))

\* times of day, in minutes since 00:00, and deviations of the draw, in tenths
Minutes == {0, 359, 360, 419, 420, 540, 570, 599, 600, 959, 960, 1080, 1110, 1139,
            1140, 1439}

Deviations == {0 - 175, 0 - 65, 0 - 5, 0, 5, 37}

MaxTickets == 1

\* one iteration of ticket_simulator up to its put
ticket_simulator(key, minute, dev10) ==
    LET base  == Base(HourOf(minute))
        count == TicketCount(base, dev10)
    IN  /\ NumUpdates < MaxTickets
        /\ last_ticket' = [done |-> TRUE, minute |-> minute, base |-> base,
                           draw |-> base * 10 + dev10, count |-> count]
        /\ update_ewma(key, FromInt(count))

InitForecast ==
    /\ EWMA_STATE = EmptyDict
    /\ SCHEDULE = InitSchedule
    /\ fed = EmptyDict
    /\ last_update = [key |-> Null, value |-> FZero, seen |-> FALSE,
                      before |-> EmptyDict, returned |-> FZero]
    /\ last_pass = [done |-> FALSE, now_ts |-> 0, forecasts |-> EmptyDict]
    /\ last_ticket = [done |-> FALSE, minute |-> 0, base |-> 0, draw |-> 0, count |-> 0]

(***************************************************************************)
(* The event broker and the SSE subscribers.  An event is written as its   *)
(* position in the order of the puts into event_queue: the broker and the  *)
(* subscribers pass events on and read neither "type" nor "data".          *)
(* A connection c stands for one call of sse_stream and for the queue it   *)
(* creates.                                                                *)
(***************************************************************************)

\* asyncio.Queue(maxsize=1000)
INGEST_MAXSIZE == 1000

\* asyncio.Queue(maxsize=100)
SUB_MAXSIZE == 100

MaxConns == 2

MaxEvents == 2

MaxReads == 2
\* the queues a registry is drawn from
MaxQueues == 5
\* the ticks of the motion simulator followed beside the broker
MaxFirstTicks == 2

Conns == 1..MaxConns

\* the tasks that put into event_queue
Producers == {"ticket_simulator", "scheduler_loop", "buses_broadcast_loop"}

put_nowait_off_by_one(q, item) ==
    IF Len(q) >= SUB_MAXSIZE - 1
    THEN [raised |-> TRUE, q |-> q]
    ELSE [raised |-> FALSE, q |-> Append(q, item)]

put_nowait_unbounded(q, item) == [raised |-> FALSE, q |-> Append(q, item)]

\* q.put_nowait(item): raises QueueFull when the queue holds maxsize items
put_nowait(q, item) ==
    IF Len(q) >= SUB_MAXSIZE
    THEN [raised |-> TRUE, q |-> q]
    ELSE [raised |-> FALSE, q |-> Append(q, item)]

QueueFullUncaught(raised) == raised

\* except asyncio.QueueFull: pass -- whether the exception leaves the loop body
QueueFullEscapes(raised) == FALSE

QueueGetNewest(q) == [item |-> Last(q), rest |-> SubSeq(q, 1, Len(q) - 1)]

\* item = await event_queue.get(): the oldest item
QueueGet(q) == [item |-> Head(q), rest |-> Tail(q)]

\* list(subscribers)
Snapshot(subs) == subs

\* for q in list(subscribers): try: q.put_nowait(item) except QueueFull: pass
RECURSIVE Fanout(_, _, _, _)
Fanout(qs, snapshot, i, item) ==
    IF i > Len(snapshot) THEN [queues |-> qs, failed |-> FALSE]
    ELSE LET c == snapshot[i]
             r == put_nowait(qs[c], item)
         IN  IF QueueFullEscapes(r.raised)
             THEN [queues |-> qs, failed |-> TRUE]
             ELSE Fanout([qs EXCEPT ![c] = r.q], snapshot, i + 1, item)

RegisterTwice(subs, c) == Append(Append(subs, c), c)

\* subscribers.append(queue)
Register(subs, c) == Append(subs, c)

\* if queue in subscribers: subscribers.remove(queue)
RECURSIVE ListRemove(_, _)
ListRemove(subs, c) ==
    IF subs = <<>> THEN <<>>
    ELSE IF Head(subs) = c THEN Tail(subs)
    ELSE <<Head(subs)>> \o ListRemove(Tail(subs), c)

\* a removal that drops the oldest subscriber instead
DeregisterOldest(subs, c) == IF c \in Range(subs) THEN Tail(subs) ELSE subs

Deregister(subs, c) == IF c \in Range(subs) THEN ListRemove(subs, c) ELSE subs

\* list.remove(x) raises ValueError when x is not in the list
RemoveRaises(subs, c) == c \notin Range(subs)

\* the finally block reaches subscribers.remove only under `if queue in subscribers`
DeregisterRaises(subs, c) == c \in Range(subs) /\ RemoveRaises(subs, c)

\* a put that counts the item and loses it
EnqueueLost ==
    /\ event_queue' = event_queue
    /\ published' = published + 1

\* await event_queue.put(item), the queue not full: the item goes in
Enqueue ==
    /\ event_queue' = Append(event_queue, published + 1)
    /\ published' = published + 1

\* the producers suspended in `await event_queue.put(...)`
Waiting == Cardinality({p \in Producers : putting[p]})

\* one iteration of ticket_simulator, scheduler_loop or buses_broadcast_loop
\* reaches its `await event_queue.put(...)`; a full queue makes it wait
event_queue_put(p) ==
    /\ ~putting[p]
    /\ published + Waiting < warm.published + MaxEvents
    /\ IF Len(event_queue) < INGEST_MAXSIZE
       THEN Enqueue /\ UNCHANGED putting
       ELSE putting' = [putting EXCEPT ![p] = TRUE] /\ UNCHANGED <<event_queue, published>>
    /\ UNCHANGED <<subscribers, queue, gen, closed, broadcaster, warm, delivered,
                   worldVars, forecastVars>>

\* a waiting put is woken once the queue has room
event_queue_put_resume(p) ==
    /\ putting[p]
    /\ Len(event_queue) < INGEST_MAXSIZE
    /\ Enqueue
    /\ putting' = [putting EXCEPT ![p] = FALSE]
    /\ UNCHANGED <<subscribers, queue, gen, closed, broadcaster, warm, delivered,
                   worldVars, forecastVars>>

\* the events the broadcaster has taken from event_queue
Drained == published - Len(event_queue)

\* one turn of broadcaster's loop: no await between the get and the end of the for
broadcaster_drain ==
    /\ broadcaster = "running"
    /\ event_queue # <<>>
    /\ Drained < warm.drained + MaxEvents
    /\ LET got      == QueueGet(event_queue)
           snapshot == Snapshot(subscribers)
           out      == Fanout(queue, snapshot, 1, got.item)
       IN  /\ event_queue' = got.rest
           /\ queue' = out.queues
           /\ broadcaster' = IF out.failed THEN "failed" ELSE "running"
           /\ delivered' = [c \in Conns |->
                              IF out.queues[c] # queue[c]
                              THEN Append(delivered[c], got.item) ELSE delivered[c]]
    /\ UNCHANGED <<putting, subscribers, gen, closed, published, warm,
                   worldVars, forecastVars>>

\* GET /sse: the handler makes the queue, registers it and returns the response
\* around gen(), whose body has not started.  Connections are numbered in the
\* order of their requests.
sse_stream(c) ==
    /\ gen[c] = "none"
    /\ \A d \in Conns : d < c => gen[d] # "none"
    /\ queue' = [queue EXCEPT ![c] = <<>>]
    /\ subscribers' = Register(subscribers, c)
    /\ gen' = [gen EXCEPT ![c] = "created"]
    /\ UNCHANGED <<event_queue, putting, closed, broadcaster, published, warm,
                   delivered, worldVars, forecastVars>>

\* the items gen() of connection c has taken from its queue
Taken(c) == Len(delivered[c]) - Len(queue[c])

\* the response asks gen() for its next chunk: the body runs to `await queue.get()`,
\* and on to the yield when the queue holds an item
gen_next(c) ==
    /\ ~closed[c]
    /\ gen[c] \in {"created", "yield"}
    /\ IF queue[c] # <<>>
       THEN /\ Taken(c) < MaxReads
            /\ queue' = [queue EXCEPT ![c] = Tail(queue[c])]
            /\ gen' = [gen EXCEPT ![c] = "yield"]
       ELSE /\ gen' = [gen EXCEPT ![c] = "get"]
            /\ UNCHANGED queue
    /\ UNCHANGED <<event_queue, putting, subscribers, closed, broadcaster, published,
                   warm, delivered, worldVars, forecastVars>>

\* `await queue.get()` returns once the broadcaster has put an item
gen_get(c) ==
    /\ ~closed[c]
    /\ gen[c] = "get"
    /\ queue[c] # <<>>
    /\ Taken(c) < MaxReads
    /\ queue' = [queue EXCEPT ![c] = Tail(queue[c])]
    /\ gen' = [gen EXCEPT ![c] = "yield"]
    /\ UNCHANGED <<event_queue, putting, subscribers, closed, broadcaster, published,
                   warm, delivered, worldVars, forecastVars>>

\* the outer connection closes, at any time after sse_stream has returned
connection_close(c) ==
    /\ ~closed[c]
    /\ gen[c] \in {"created", "get", "yield"}
    /\ closed' = [closed EXCEPT ![c] = TRUE]
    /\ UNCHANGED <<event_queue, putting, subscribers, queue, gen, broadcaster,
                   published, warm, delivered, worldVars, forecastVars>>

\* gen() is cancelled at its await or closed at its yield: CancelledError is
\* passed over, and the finally block runs.  A generator whose body never
\* started ("created") has no finally block to run: closing it runs nothing.
\* The queue, which nothing refers to once gen() has ended, is written as empty.
gen_finally(c) ==
    /\ closed[c]
    /\ gen[c] \in {"get", "yield"}
    /\ subscribers' = Deregister(subscribers, c)
    /\ gen' = [gen EXCEPT ![c] = "finished"]
    /\ queue' = [queue EXCEPT ![c] = <<>>]
    /\ UNCHANGED <<event_queue, putting, closed, broadcaster, published,
                   warm, delivered, worldVars, forecastVars>>

(***************************************************************************)
(* Initial states.  event_broker starts with an empty queue and no         *)
(* subscriber.  A subscriber queue takes 100 drains to fill and the        *)
(* ingestion queue 1000 puts, so the broker is also started from two       *)
(* states that it reaches from the empty one, each computed with the       *)
(* operators of the actions that lead there:                               *)
(*   slow subscriber: sse_stream(1), a put, a drain, gen_next(1), which    *)
(*     leaves gen() of connection 1 at its yield, and then SUB_MAXSIZE     *)
(*     times a put and a drain, which fill the queue of connection 1;      *)
(*   backlog: INGEST_MAXSIZE puts and no drain, which fill event_queue.    *)
(* SpecBroker starts from the first two, where event_queue stays far from  *)
(* full and no put waits; SpecBrokerBacklog starts from the third.         *)
(***************************************************************************)

InitBrokerCommon(n, d) ==
    /\ putting = [p \in Producers |-> FALSE]
    /\ closed = [c \in Conns |-> FALSE]
    /\ broadcaster = "running"
    /\ published = n
    /\ warm = [published |-> n, drained |-> d]

InitBrokerEmpty ==
    /\ InitBrokerCommon(0, 0)
    /\ event_queue = <<>>
    /\ subscribers = <<>>
    /\ queue = [c \in Conns |-> <<>>]
    /\ gen = [c \in Conns |-> "none"]
    /\ delivered = [c \in Conns |-> <<>>]

InitBrokerSlowSubscriber ==
    LET subs   == Register(<<>>, 1)
        \* events 2..SUB_MAXSIZE, event 1 being the one gen() has taken
        filled == [c \in Conns |->
                     IF c = 1 THEN [i \in 1..(SUB_MAXSIZE - 1) |-> i + 1] ELSE <<>>]
        final  == Fanout(filled, Snapshot(subs), 1, SUB_MAXSIZE + 1).queues
    IN  /\ InitBrokerCommon(SUB_MAXSIZE + 1, SUB_MAXSIZE + 1)
        /\ event_queue = <<>>
        /\ subscribers = subs
        /\ queue = final
        /\ gen = [c \in Conns |-> IF c = 1 THEN "yield" ELSE "none"]
        /\ delivered = [c \in Conns |->
                          IF c = 1 THEN [i \in 1..(SUB_MAXSIZE + 1) |-> i] ELSE <<>>]

InitBrokerBacklog ==
    /\ InitBrokerCommon(INGEST_MAXSIZE, 0)
    /\ event_queue = [i \in 1..INGEST_MAXSIZE |-> i]
    /\ subscribers = <<>>
    /\ queue = [c \in Conns |-> <<>>]
    /\ gen = [c \in Conns |-> "none"]
    /\ delivered = [c \in Conns |-> <<>>]

InitBroker == InitBrokerEmpty \/ InitBrokerSlowSubscriber

\* the slow subscriber's state, and then INGEST_MAXSIZE puts and no drain: the
\* queue of connection 1 and event_queue are both full
InitBrokerPressure ==
    LET subs   == Register(<<>>, 1)
        filled == [c \in Conns |->
                     IF c = 1 THEN [i \in 1..SUB_MAXSIZE |-> i + 1] ELSE <<>>]
        n      == SUB_MAXSIZE + 1
    IN  /\ InitBrokerCommon(n + INGEST_MAXSIZE, n)
        /\ event_queue = [i \in 1..INGEST_MAXSIZE |-> n + i]
        /\ subscribers = subs
        /\ queue = filled
        /\ gen = [c \in Conns |-> IF c = 1 THEN "yield" ELSE "none"]
        /\ delivered = [c \in Conns |->
                          IF c = 1 THEN [i \in 1..n |-> i] ELSE <<>>]

(***************************************************************************)
(* Specifications.  The motion simulator shares no state with the other    *)
(* tasks, the forecaster and the optimizer are plain functions of the      *)
(* forecast map and the schedule, and the broker reads no payload, so each *)
(* is explored on its own with the rest of the state held at its initial   *)
(* value.                                                                  *)
(***************************************************************************)
\* the state once bootstrap_network has run and event_broker has started
InitStartup == InitWorld /\ InitForecast /\ InitBrokerEmpty

NextWorld == gps_simulator

SpecWorld == InitStartup /\ [][NextWorld]_vars

\* gps_simulator's loop has no exit and awaits only asyncio.sleep(1).  The action
\* is enabled in every state, so its weak fairness, WF_vars(gps_simulator), is
\* that it is taken again and again.
SpecWorldFair == SpecWorld /\ []<><<gps_simulator>>_vars

\* buses whose next_stop_id names no stop of their route: None, or an id of no
\* stop; such a bus stands at a stop of its route
AbsentIds == {Null, "S8"}

InitMalformed ==
    /\ \E bad \in (SUBSET BusIds) \ {{}} : \E id \in AbsentIds, at \in {"S0", "S4"} :
          BUSES = [b \in BusIds |->
                     IF b \in bad
                     THEN [InitBuses[b] EXCEPT !.next_stop_id = id,
                                               !.lat = STOPS[at].lat,
                                               !.lon = STOPS[at].lon]
                     ELSE InitBuses[b]]
    /\ leg_ticks = [b \in BusIds |-> 0]
    /\ InitForecast
    /\ InitBrokerEmpty

\* weak fairness of gps_simulator, enabled exactly where gps_runs holds
SpecWorldMalformed ==
    /\ InitMalformed
    /\ [][NextWorld]_vars
    /\ []<>(~gps_runs) \/ []<><<gps_simulator>>_vars

NextForecast ==
    \/ \E key \in TicketKeys, count \in Counts :
          update_ewma(key, FromInt(count)) /\ UNCHANGED last_ticket
    \/ \E now_ts \in NowValues : optimize_schedule(now_ts)

SpecForecast == InitStartup /\ [][NextForecast]_vars

\* the ticket generator at any time of day, with any draw
NextTickets ==
    \E key \in TicketKeys, minute \in Minutes, dev10 \in Deviations :
        ticket_simulator(key, minute, dev10)

SpecTickets == InitStartup /\ [][NextTickets]_vars

NextBroker ==
    \/ \E p \in Producers : event_queue_put(p)
    \/ broadcaster_drain
    \/ \E c \in Conns : sse_stream(c)
    \/ \E c \in Conns : gen_next(c)
    \/ \E c \in Conns : gen_get(c)
    \/ \E c \in Conns : connection_close(c)
    \/ \E c \in Conns : gen_finally(c)

\* the broker at startup or with a slow subscriber
InitServing == InitWorld /\ InitForecast /\ InitBroker

SpecBroker == InitServing /\ [][NextBroker]_vars

\* from a full event_queue the producers wait in their puts
NextBrokerBacklog ==
    \/ NextBroker
    \/ \E p \in Producers : event_queue_put_resume(p)

InitBacklogged == InitWorld /\ InitForecast /\ InitBrokerBacklog

SpecBrokerBacklog == InitBacklogged /\ [][NextBrokerBacklog]_vars

\* producers, broadcaster and consumers at any rates, from the state where
\* event_queue and a subscriber's queue are both full
NextBrokerPressure ==
    \/ \E p \in Producers : event_queue_put(p)
    \/ \E p \in Producers : event_queue_put_resume(p)
    \/ broadcaster_drain
    \/ \E c \in Conns : sse_stream(c)
    \/ \E c \in Conns : gen_next(c)
    \/ \E c \in Conns : gen_get(c)

InitPressured == InitWorld /\ InitForecast /\ InitBrokerPressure

SpecBrokerPressure == InitPressured /\ [][NextBrokerPressure]_vars

\* the first ticks of the motion simulator
gps_first_ticks ==
    /\ \A b \in BusIds : leg_ticks[b] < MaxFirstTicks
    /\ gps_simulator

\* the producers, the broadcaster and the motion simulator beside subscribers
\* that never consume
NextBrokerFair ==
    \/ \E p \in Producers : event_queue_put(p)
    \/ \E p \in Producers : event_queue_put_resume(p)
    \/ broadcaster_drain
    \/ gps_first_ticks

\* event_queue empty or full, with no subscriber or with one whose queue is full
InitStalled ==
    /\ InitWorld
    /\ InitForecast
    /\ InitBroker \/ InitBrokerBacklog \/ InitBrokerPressure

\* broadcaster's loop has no exit and awaits only event_queue.get(), which returns
\* once the queue holds an item; the event loop runs a producer that get() woke
SpecBrokerFair ==
    /\ InitStalled
    /\ [][NextBrokerFair]_vars
    /\ WF_vars(broadcaster_drain)
    /\ \A p \in Producers : WF_vars(event_queue_put_resume(p))

(***************************************************************************)
(* The claims.                                                             *)
(***************************************************************************)

\* C1: the events put into a subscriber's queue are a subsequence of the
\* publish order: their positions in that order strictly increase, and none
\* is an event that was never published.
C1_DeliveredInPublishOrder ==
    \A c \in Conns :
        /\ \A i \in 1..Len(delivered[c]) : delivered[c][i] \in 1..published
        /\ \A i \in 1..(Len(delivered[c]) - 1) : delivered[c][i] < delivered[c][i + 1]

\* a subscriber that missed an event while full and was given a later one
C1_Witness ==
    \E c \in Conns :
        \E i \in 1..(Len(delivered[c]) - 1) : delivered[c][i + 1] > delivered[c][i] + 1

\* a step of the broadcaster: it takes one event from event_queue
DrainStep == Drained' = Drained + 1

\* C2: a drain with every registered subscriber short of SUB_MAXSIZE items puts
\* the drained event at the end of every registered subscriber's queue.
C2_AllSubscribersReceive ==
    [][(DrainStep /\ \A c \in Range(subscribers) : Len(queue[c]) < SUB_MAXSIZE)
         => \A c \in Range(subscribers) : queue'[c] = Append(queue[c], Head(event_queue))]_vars

\* two registered subscribers were both given the event drained last
C2_Witness ==
    /\ Drained > warm.drained
    /\ \E c1, c2 \in Range(subscribers) :
          /\ c1 # c2
          /\ delivered[c1] # <<>> /\ Last(delivered[c1]) = Drained
          /\ delivered[c2] # <<>> /\ Last(delivered[c2]) = Drained

\* C3: a drain while some registered subscriber holds SUB_MAXSIZE items leaves
\* that subscriber's queue as it is, still puts the event into every registered
\* subscriber with room, and leaves the broadcaster running.
C3_FullSubscriberSkipped ==
    [][(DrainStep /\ \E c \in Range(subscribers) : Len(queue[c]) = SUB_MAXSIZE)
         => /\ \A c \in Range(subscribers) :
                  IF Len(queue[c]) = SUB_MAXSIZE
                  THEN queue'[c] = queue[c]
                  ELSE queue'[c] = Append(queue[c], Head(event_queue))
            /\ broadcaster' = "running"]_vars

\* the event drained last passed over a full subscriber and reached another,
\* and the broadcaster runs on
C3_Witness ==
    /\ broadcaster = "running"
    /\ Drained > warm.drained
    /\ \E c1, c2 \in Range(subscribers) :
          /\ Len(queue[c1]) = SUB_MAXSIZE /\ Last(delivered[c1]) < Drained
          /\ delivered[c2] # <<>> /\ Last(delivered[c2]) = Drained

\* gen() of connection c still has code to run: its finally block
GenPending(c) == gen[c] \in {"get", "yield"}

\* C4: the registry does not keep the queue of a closed connection: once the
\* connection has closed and its gen() has nothing left to run, its queue is
\* not in subscribers (so no later drain puts anything into it).
C4_ClosedConnectionRemoved ==
    \A c \in Conns : (closed[c] /\ ~GenPending(c)) => c \notin Range(subscribers)

\* C5: a bus's next_stop_id, when set, is a stop of its route.
C5_NextStopOnRoute ==
    \A b \in BusIds :
        BUSES[b].next_stop_id # Null
            => BUSES[b].next_stop_id \in Range(ROUTES[BUSES[b].route_id])

\* both buses have gone past the end of their route's list and wrapped around
C5_Witness ==
    /\ BUSES["B1"].next_stop_id = "S0"
    /\ BUSES["B2"].next_stop_id = "S4"

\* C6: after a tick every ETA is at least 5, and a bus whose target the tick did
\* not change has an ETA no larger than before the tick.
C6_EtaDecays ==
    [][\A b \in BusIds :
          /\ BUSES'[b].eta_next_stop_s >= 5
          /\ BUSES'[b].next_stop_id = BUSES[b].next_stop_id
                => BUSES'[b].eta_next_stop_s <= BUSES[b].eta_next_stop_s]_vars

\* a bus in the middle of a leg whose ETA has come down to the floor
C6_Witness ==
    \E b \in BusIds : BUSES[b].eta_next_stop_s = 5 /\ leg_ticks[b] > 12

MaxLegTicks == 25

\* C7: no bus stays on a leg for more than MaxLegTicks ticks, and, the simulator
\* ticking on, every bus changes its target again and again.
C7_EveryLegEnds ==
    /\ [](\A b \in BusIds : leg_ticks[b] < MaxLegTicks)
    /\ \A b \in BusIds :
          []<><<BUSES'[b].next_stop_id # BUSES[b].next_stop_id>>_vars

\* a bus has just arrived: it stands on the stop it was heading for, on a new leg
C7_Witness ==
    /\ BUSES["B1"].next_stop_id = "S2"
    /\ leg_ticks["B1"] = 0
    /\ BUSES["B1"].lat = STOPS["S1"].lat /\ BUSES["B1"].lon = STOPS["S1"].lon

\* the forecast the last optimizer pass read for an entry
PassForecast(entry) == Forecast(last_pass.forecasts, entry)

C8_Claimed(entry, forecast, now_ts) ==
    IF FLess(F15, forecast)
    THEN entry.optimized_time >= now_ts /\ entry.optimized_time <= entry.planned_time
    ELSE IF FLess(forecast, F5)
    THEN entry.optimized_time = entry.planned_time + 60
    ELSE entry.optimized_time = entry.planned_time

\* C8 as claimed: after a pass, an entry with forecast > 15 has optimized_time
\* between now and planned_time, one with forecast < 5 has planned_time + 60,
\* any other has planned_time.
C8_AsClaimed ==
    last_pass.done =>
        \A i \in 1..Len(SCHEDULE) :
            C8_Claimed(SCHEDULE[i], PassForecast(SCHEDULE[i]), last_pass.now_ts)

C8_Amended(entry, forecast, now_ts) ==
    IF FLess(F15, forecast)
    THEN /\ entry.optimized_time >= now_ts
         /\ entry.optimized_time <= Max(now_ts, entry.planned_time)
    ELSE IF FLess(forecast, F5)
    THEN entry.optimized_time = entry.planned_time + 60
    ELSE entry.optimized_time = entry.planned_time

\* C8 amended: as claimed, but an entry with forecast > 15 has optimized_time
\* between now and max(now, planned_time): at most planned_time only when now
\* is not later than planned_time.
C8_OptimizedTimes ==
    last_pass.done =>
        \A i \in 1..Len(SCHEDULE) :
            C8_Amended(SCHEDULE[i], PassForecast(SCHEDULE[i]), last_pass.now_ts)

\* a pass met an entry with forecast > 15 whose planned_time was already past,
\* an entry with forecast < 5, and an entry with a forecast from 5 to 15
C8_Witness ==
    /\ last_pass.done
    /\ \E i \in 1..Len(SCHEDULE) :
          /\ FLess(F15, PassForecast(SCHEDULE[i]))
          /\ SCHEDULE[i].planned_time < last_pass.now_ts
    /\ \E j \in 1..Len(SCHEDULE) : FLess(PassForecast(SCHEDULE[j]), F5)
    /\ \E k \in 1..Len(SCHEDULE) :
          /\ ~FLess(F15, PassForecast(SCHEDULE[k]))
          /\ ~FLess(PassForecast(SCHEDULE[k]), F5)

\* C9 as claimed: update_ewma(key, v) returns and stores v itself for a key never
\* seen, and 0.3 * v + 0.7 * previous for a key that held previous; no other
\* key's value changes.
C9_AsClaimed ==
    last_update.key # Null =>
        LET key == last_update.key
            v   == last_update.value
        IN  /\ EWMA_STATE[key] = last_update.returned
            /\ IF last_update.seen
               THEN last_update.returned
                      = FAdd(FMul(FRatio(3, 10), v),
                             FMul(FRatio(7, 10), last_update.before[key]))
               ELSE last_update.returned = v
            /\ \A k \in DOMAIN last_update.before :
                  k # key => EWMA_STATE[k] = last_update.before[k]

\* every value the key was given equals the first one
SameValues(values) == \A i \in 1..Len(values) : values[i] = values[1]

F20 == FromInt(20)

\* C10 as claimed: a key given the same v every time holds v; after three times
\* 20 for "R1:S0" a pass gives that key's entries planned_time - 180, or now
\* when that is earlier than now.
C10_AsClaimed ==
    /\ \A key \in DOMAIN fed : SameValues(fed[key]) => EWMA_STATE[key] = fed[key][1]
    /\ fed = [k \in {"R1:S0"} |-> <<F20, F20, F20>>] => EWMA_STATE["R1:S0"] = F20
    /\ (last_pass.done /\ fed = [k \in {"R1:S0"} |-> <<F20, F20, F20>>]
          /\ last_pass.forecasts = EWMA_STATE)
         => \A i \in 1..Len(SCHEDULE) :
               Key(SCHEDULE[i].route_id, SCHEDULE[i].stop_id) = "R1:S0"
                  => SCHEDULE[i].optimized_time
                       = Max(last_pass.now_ts, SCHEDULE[i].planned_time - 180)

\* C11: event_queue never holds more than INGEST_MAXSIZE events and no
\* subscriber's queue more than SUB_MAXSIZE; a step taken while event_queue is
\* full adds nothing to it, and a producer starts to wait only then; a step
\* taken while a subscriber's queue is full adds nothing to that queue.
C11_QueuesBounded ==
    /\ [](/\ Len(event_queue) <= INGEST_MAXSIZE
          /\ \A c \in Conns : Len(queue[c]) <= SUB_MAXSIZE)
    /\ [][Len(event_queue) = INGEST_MAXSIZE
            => (Len(event_queue') <= Len(event_queue) /\ published' = published)]_vars
    /\ [][\A p \in Producers :
            (~putting[p] /\ putting'[p])
               => (Len(event_queue) = INGEST_MAXSIZE /\ event_queue' = event_queue)]_vars
    /\ [][\A c \in Conns :
            Len(queue[c]) = SUB_MAXSIZE => Len(queue'[c]) <= Len(queue[c])]_vars

\* a producer waits at a full event_queue while the event drained last was not
\* put into a subscriber's full queue
C11_Witness ==
    /\ Len(event_queue) = INGEST_MAXSIZE
    /\ \E p \in Producers : putting[p]
    /\ Drained > warm.drained
    /\ \E c \in Range(subscribers) :
          Len(queue[c]) = SUB_MAXSIZE /\ Last(delivered[c]) < Drained

\* x <= y
FLeq(x, y) == x = y \/ FLess(x, y)

\* x lies between a and b, ends included
FBetween(x, a, b) == (FLeq(a, x) /\ FLeq(x, b)) \/ (FLeq(b, x) /\ FLeq(x, a))

\* the double x as a whole number of units of 2^-60
Units(x) == ShiftLeft(x.m, x.e + 60)

\* a - b for naturals a and b: a sign and a magnitude
SignedDiff(a, b) ==
    IF BigLess(a, b) THEN [neg |-> TRUE, n |-> BigSub(b, a)]
    ELSE [neg |-> FALSE, n |-> BigSub(a, b)]

SignedMul(x, y) ==
    LET n == BigMul(x.n, y.n)
    IN  [neg |-> n # <<>> /\ x.neg # y.neg, n |-> n]

\* x <= y for signed x and y
SignedLeq(x, y) ==
    IF x.neg /\ ~y.neg THEN TRUE
    ELSE IF ~x.neg /\ y.neg THEN x.n = <<>> /\ y.n = <<>>
    ELSE IF x.neg THEN ~BigLess(x.n, y.n)
    ELSE ~BigLess(y.n, x.n)

\* the sign of the cross product (a - o) x (p - o), computed exactly:
\* -1, 0 or 1
CrossSign(o, a, p) ==
    LET l == SignedMul(SignedDiff(Units(a.lat), Units(o.lat)),
                       SignedDiff(Units(p.lon), Units(o.lon)))
        r == SignedMul(SignedDiff(Units(a.lon), Units(o.lon)),
                       SignedDiff(Units(p.lat), Units(o.lat)))
    IN  IF SignedLeq(l, r) /\ SignedLeq(r, l) THEN 0
        ELSE IF SignedLeq(l, r) THEN 0 - 1 ELSE 1

\* p is in the convex hull of the stops of a route, which are the corners of
\* a convex polygon in the order of the route: p is on the same side of, or
\* on, every edge
InHull(p, stops) ==
    LET side(i) == CrossSign(STOPS[stops[i]], STOPS[stops[(i % Len(stops)) + 1]], p)
    IN  \/ \A i \in 1..Len(stops) : side(i) >= 0
        \/ \A i \in 1..Len(stops) : side(i) <= 0

\* the stop a bus is heading for
TargetStop(bus) ==
    STOPS[ROUTES[bus.route_id][TargetIndex(ROUTES[bus.route_id], bus.next_stop_id) + 1]]

\* the stop before it on the route, which the bus left last
LeftStop(bus) ==
    LET stops == ROUTES[bus.route_id]
        i     == TargetIndex(stops, bus.next_stop_id)
    IN  STOPS[stops[((i + Len(stops) - 1) % Len(stops)) + 1]]

\* a tick leaves each coordinate between its old value and the target's
C12_TickBetween ==
    \A b \in BusIds :
        /\ FBetween(BUSES'[b].lat, BUSES[b].lat, TargetStop(BUSES[b]).lat)
        /\ FBetween(BUSES'[b].lon, BUSES[b].lon, TargetStop(BUSES[b]).lon)

\* C12 as claimed: every bus is always in the convex hull of its route's stops,
\* and a tick leaves each coordinate between its old value and the target's.
C12_AsClaimed ==
    /\ [](\A b \in BusIds : InHull(BUSES[b], ROUTES[BUSES[b].route_id]))
    /\ [][C12_TickBetween]_vars

\* C12 amended: each coordinate of a bus is always between the coordinates of
\* the stop it left last and of its target, and a tick leaves each coordinate
\* between its old value and the target's.
C12_BetweenStops ==
    /\ [](\A b \in BusIds :
            /\ FBetween(BUSES[b].lat, LeftStop(BUSES[b]).lat, TargetStop(BUSES[b]).lat)
            /\ FBetween(BUSES[b].lon, LeftStop(BUSES[b]).lon, TargetStop(BUSES[b]).lon))
    /\ [][C12_TickBetween]_vars

\* a bus in the middle of a leg, at a position that rounding has put outside
\* the hull
C12_Witness ==
    \E b \in BusIds :
        /\ leg_ticks[b] > 0
        /\ ~InHull(BUSES[b], ROUTES[BUSES[b].route_id])

\* C13: the broadcaster never fails; a drain puts the drained event exactly
\* once into the queue of every subscriber that is registered during it and has
\* room, and changes no other queue; a subscriber's queue is empty when it is
\* registered and is given an event only by the drain of that event, so never
\* an event drained before its registration or after its removal.
C13_DrainsAndRegistrations ==
    /\ [](broadcaster = "running")
    /\ [][DrainStep =>
            \A c \in Conns :
                IF c \in Range(subscribers) /\ Len(queue[c]) < SUB_MAXSIZE
                THEN queue'[c] = Append(queue[c], Head(event_queue))
                ELSE queue'[c] = queue[c]]_vars
    /\ [][\A c \in Conns :
            /\ (c \notin Range(subscribers) /\ c \in Range(subscribers'))
                  => (queue'[c] = <<>> /\ delivered'[c] = <<>>)
            /\ delivered'[c] # delivered[c]
                  => /\ DrainStep
                     /\ c \in Range(subscribers)
                     /\ delivered'[c] = Append(delivered[c], Head(event_queue))]_vars

\* one subscriber was removed after the first event and missed the next, which
\* a subscriber registered after the first drain was given as its first
C13_Witness ==
    /\ \E c1 \in Conns :
          /\ gen[c1] = "finished"
          /\ delivered[c1] # <<>> /\ Last(delivered[c1]) < Drained
    /\ \E c2 \in Range(subscribers) :
          /\ delivered[c2] # <<>>
          /\ delivered[c2][1] = Drained /\ Drained > warm.drained + 1

\* the registry as a list of distinct queues, each made by its own request
Queues == 1..MaxQueues

Registries ==
    {subs \in UNION {[1..n -> Queues] : n \in 0..MaxQueues} :
        \A i, j \in 1..Len(subs) : i # j => subs[i] # subs[j]}

\* the body of gen()'s finally block, for any queue
subscribers_remove(c) ==
    /\ ~DeregisterRaises(subscribers, c)
    /\ subscribers' = Deregister(subscribers, c)
    /\ UNCHANGED <<event_queue, putting, queue, gen, closed, broadcaster, published,
                   warm, delivered, worldVars, forecastVars>>

NextRegistry == \E c \in Queues : subscribers_remove(c)

InitRegistry ==
    /\ InitWorld
    /\ InitForecast
    /\ InitBrokerCommon(0, 0)
    /\ event_queue = <<>>
    /\ subscribers \in {subs \in Registries : Len(subs) = MaxQueues}
    /\ queue = [c \in Conns |-> <<>>]
    /\ gen = [c \in Conns |-> "none"]
    /\ delivered = [c \in Conns |-> <<>>]

SpecRegistry == InitRegistry /\ [][NextRegistry]_vars

\* C14: with the broadcaster scheduled fairly, and subscribers that are absent or
\* full and never consume, every event put into event_queue is eventually taken
\* out of it and every producer waiting in its put eventually completes it; a
\* tick of the motion simulator leaves every queue alone
C14_BroadcasterNeverWaits ==
    /\ \A k \in 1..MaxEvents :
          (published = warm.published + k) ~> (Drained >= warm.drained + k)
    /\ \A p \in Producers : putting[p] ~> ~putting[p]
    /\ [][leg_ticks' # leg_ticks => brokerVars' = brokerVars]_vars

C14_Witness ==
    /\ published = warm.published + MaxEvents
    /\ Drained = warm.drained + MaxEvents
    /\ Len(event_queue) = INGEST_MAXSIZE
    /\ \E c \in Range(subscribers) :
          Len(queue[c]) = SUB_MAXSIZE /\ Last(delivered[c]) < Drained
    /\ \A b \in BusIds : leg_ticks[b] = MaxFirstTicks

\* the list without its element c, the others in their order
Without(subs, c) == SelectSeq(subs, LAMBDA x : x # c)

\* C15: removing a queue that is not in the registry leaves the registry as it is
\* and raises no error, removing it a second time does the same, and removing a
\* registered queue takes exactly that queue out and keeps every other queue,
\* in the same order
C15_RemovalIdempotent ==
    /\ [](\A c \in Queues :
            /\ ~DeregisterRaises(subscribers, c)
            /\ c \notin Range(subscribers) => Deregister(subscribers, c) = subscribers
            /\ c \in Range(subscribers) =>
                  /\ Deregister(subscribers, c) = Without(subscribers, c)
                  /\ Range(Deregister(subscribers, c)) = Range(subscribers) \ {c}
            /\ Deregister(Deregister(subscribers, c), c) = Deregister(subscribers, c)
            /\ ~DeregisterRaises(Deregister(subscribers, c), c))
    /\ [][\E c \in Range(subscribers) : subscribers' = Without(subscribers, c)]_vars

C15_Witness ==
    /\ Len(subscribers) = MaxQueues - 2
    /\ subscribers[1] > subscribers[2]
    /\ Queues \ Range(subscribers) = {2, MaxQueues}
\* a tick of bus b whose move ends within 1e-4 of the target in both coordinates
ComesWithin(bus) ==
    LET t   == TargetStop(bus)
        lat == StepToward(bus.lat, t.lat)
        lon == StepToward(bus.lon, t.lon)
    IN  /\ FLess(FAbsDiff(lat, t.lat), ARRIVE_EPS)
        /\ FLess(FAbsDiff(lon, t.lon), ARRIVE_EPS)

\* the stop after the bus's target on its route, the first after the last
CyclicSuccessor(bus) ==
    LET stops == ROUTES[bus.route_id]
        k     == CHOOSE i \in 1..Len(stops) : stops[i] = bus.next_stop_id
    IN  IF k = Len(stops) THEN stops[1] ELSE stops[k + 1]

\* C16: on the tick where a bus comes within 1e-4 of its target in both
\* coordinates its position becomes the target stop's, its next stop becomes the
\* cyclic successor of the target on the route and its ETA becomes 60; on any
\* other tick its next stop is unchanged
C16_ArrivalTick ==
    [][\A b \in BusIds :
          IF ComesWithin(BUSES[b])
          THEN /\ BUSES'[b].lat = STOPS[BUSES[b].next_stop_id].lat
               /\ BUSES'[b].lon = STOPS[BUSES[b].next_stop_id].lon
               /\ BUSES'[b].next_stop_id = CyclicSuccessor(BUSES[b])
               /\ BUSES'[b].eta_next_stop_s = 60
          ELSE BUSES'[b].next_stop_id = BUSES[b].next_stop_id]_vars

C16_Witness ==
    /\ BUSES["B1"].next_stop_id = "S0"
    /\ BUSES["B1"].lat = STOPS["S7"].lat /\ BUSES["B1"].lon = STOPS["S7"].lon
    /\ BUSES["B1"].eta_next_stop_s = 60
    /\ leg_ticks["B1"] = 0
    /\ BUSES["B2"].next_stop_id # "S3"
\* the bus's next_stop_id is None or names no stop of its route
Absent(bus) == bus.next_stop_id \notin Range(ROUTES[bus.route_id])

\* C17: a tick raises no error for a bus whose next_stop_id is absent from its
\* route, and moves it toward the route's stop at index 0, arriving there as at
\* any target; the simulator keeps ticking, and a bus whose next_stop_id is on
\* its route is moved by the ordinary rule
C17_AbsentNextStop ==
    /\ [](\A b \in BusIds :
            ~TargetIndexRaises(ROUTES[BUSES[b].route_id], BUSES[b].next_stop_id))
    /\ [][\A b \in BusIds : Absent(BUSES[b]) =>
            LET stops == ROUTES[BUSES[b].route_id]
                first == STOPS[stops[1]]
                lat   == StepToward(BUSES[b].lat, first.lat)
                lon   == StepToward(BUSES[b].lon, first.lon)
            IN  IF /\ FLess(FAbsDiff(lat, first.lat), ARRIVE_EPS)
                   /\ FLess(FAbsDiff(lon, first.lon), ARRIVE_EPS)
                THEN /\ BUSES'[b].lat = first.lat /\ BUSES'[b].lon = first.lon
                     /\ BUSES'[b].next_stop_id = stops[2]
                ELSE /\ BUSES'[b].lat = lat /\ BUSES'[b].lon = lon
                     /\ BUSES'[b].next_stop_id = BUSES[b].next_stop_id]_vars
    /\ [][\A b \in BusIds : ~Absent(BUSES[b]) => BUSES'[b] = MoveBus(BUSES[b])]_vars
    /\ <>(\A b \in BusIds : ~Absent(BUSES[b]))
    /\ []<><<BUSES' # BUSES>>_vars

C17_Witness ==
    /\ Absent(BUSES["B2"])
    /\ leg_ticks["B2"] > 3
    /\ ~Absent(BUSES["B1"])
    /\ BUSES["B1"].next_stop_id = "S2"
\* the step puts one new event at the end of event_queue
Publishes ==
    /\ published' = published + 1
    /\ event_queue' = Append(event_queue, published')

\* an iteration of the motion simulator
MotionTick == leg_ticks' # leg_ticks

\* an iteration of a producer ends in its put: the event goes in, at once or,
\* the queue being full, once the producer has waited
IterationPublishes ==
    \A p \in Producers :
        /\ event_queue_put(p) =>
              \/ Publishes /\ ~putting'[p]
              \/ Len(event_queue) = INGEST_MAXSIZE /\ putting'[p]
        /\ putting[p] /\ ~putting'[p] => Publishes

WaitingPutsEnd == \A p \in Producers : putting[p] ~> ~putting[p]

\* C18 as claimed: the motion simulator, too, publishes an event on every one
\* of its iterations
C18_AsClaimed ==
    /\ [][IterationPublishes]_vars
    /\ WaitingPutsEnd
    /\ [][MotionTick => Publishes]_vars

\* C18: the ticket generator, the schedule optimizer and the snapshot publisher
\* publish an event on every iteration, and every event comes from one of them;
\* an iteration of the motion simulator publishes nothing
C18_ThreeProducers ==
    /\ [][IterationPublishes]_vars
    /\ WaitingPutsEnd
    /\ [][published' # published \/ event_queue' # event_queue =>
             \/ \E p \in Producers : event_queue_put(p) \/ event_queue_put_resume(p)
             \/ broadcaster_drain]_vars
    /\ [][MotionTick =>
             published' = published /\ event_queue' = event_queue /\ putting' = putting]_vars

C18_Witness ==
    /\ \A b \in BusIds : leg_ticks[b] = MaxFirstTicks
    /\ published = warm.published + 1
    /\ event_queue = <<published>>
\* the step is an optimizer pass
PassStep == last_pass' # last_pass \/ SCHEDULE' # SCHEDULE

\* C19: after any number of optimizer passes the schedule has the entries of
\* bootstrap in the same order, each with its route, stop and planned_time, and
\* a pass leaves the forecast map and the buses as they were
C19_OnlyOptimizedTime ==
    /\ [](/\ Len(SCHEDULE) = Len(InitSchedule)
          /\ \A i \in 1..Len(InitSchedule) :
                /\ DOMAIN SCHEDULE[i] = DOMAIN InitSchedule[i]
                /\ SCHEDULE[i].route_id = InitSchedule[i].route_id
                /\ SCHEDULE[i].stop_id = InitSchedule[i].stop_id
                /\ SCHEDULE[i].planned_time = InitSchedule[i].planned_time)
    /\ [][PassStep => EWMA_STATE' = EWMA_STATE /\ BUSES' = BUSES]_vars

\* a pass over a fed forecast map has delayed one entry and advanced another
C19_Witness ==
    /\ last_pass.done
    /\ last_pass.now_ts = 0
    /\ last_pass.forecasts # EmptyDict
    /\ \E i \in 1..Len(SCHEDULE) :
          /\ SCHEDULE[i].optimized_time = SCHEDULE[i].planned_time + 60
    /\ \E i \in 1..Len(SCHEDULE) :
          /\ SCHEDULE[i].optimized_time = SCHEDULE[i].planned_time - 180
\* the peak windows 07:00-09:00 and 16:00-18:00, in minutes since 00:00
InPeakWindow(minute) ==
    \/ 7 * 60 <= minute /\ minute <= 9 * 60
    \/ 16 * 60 <= minute /\ minute <= 18 * 60

\* C20 as claimed: the base is 6 before 06:00, 16 exactly in the peak windows
\* 07:00-09:00 and 16:00-18:00 and 10 at any other time, and the count is a
\* non-negative integer
C20_AsClaimed ==
    last_ticket.done =>
        /\ last_ticket.base = (IF last_ticket.minute < 6 * 60 THEN 6
                               ELSE IF InPeakWindow(last_ticket.minute) THEN 16
                               ELSE 10)
        /\ last_ticket.count \in Nat
====
